---- MODULE Spec2Model ----
(***************************************************************************)
(* A model of the tutorial notebooks: the three remote-function exercises  *)
(* of exercises/colab01-03.ipynb running on the Ray runtime the notebook   *)
(* describes, the grid search of the Tune notebook and the                  *)
(* population-based-training run of the PBT notebook.                       *)
(*                                                                         *)
(* Time is discrete, one tick = 10 ms.  time.sleep(d) takes exactly d;     *)
(* submitting a task, dispatching it to a free CPU and handing over a      *)
(* result take no time (a tick passes only when nothing else can happen).  *)
(***************************************************************************)
EXTENDS Integers, Sequences, FiniteSets, TLC

\* ------------------------------------------------------------ constants

\* time.sleep(1) in slow_function, in ticks
SlowTime == 100
\* time.sleep(0.1) in each of the four pipeline stages
StageTime == 10
\* time.sleep(0.03) in compute_gradient
GradTime == 3
\* for i in range(4)
NumCalls == 4
\* for _ in range(10) in train_model
NumRounds == 10
\* for j in range(2) in train_model
NumGrads == 2
\* np.ones((1000, 100)): the number of rows
NumData == 1000
\* np.ones((1000, 100)): the number of columns, bounded
Dim == 2
\* if inner_end - inner_start >= 0.1
InnerLimit == 10
\* assert duration < 1.1 / duration > 1
Ex1TooSlow == 110
Ex1TooFast == 100
\* assert duration < 0.8 / duration > 0.4
Ex2TooSlow == 80
Ex2TooFast == 40
\* assert duration < 0.5 / duration > 0.3
Ex3TooSlow == 50
Ex3TooFast == 30

\* mutant: the runtime is started with a single CPU
InitCpusOne(ex) == 1

\* mutant: exercise 3 runs on the runtime of exercises 1 and 2
InitCpusFour(ex) == 4

\* mutant: the runtime is started with two CPUs
InitCpusTwo(ex) == 2

\* ray.init(num_cpus=...) of the cell that starts the runtime of an exercise
InitCpus(ex) == IF ex = 3 THEN 9 ELSE 4

\* for filename in ['file1', 'file2', 'file3', 'file4']
Filenames == <<"file1", "file2", "file3", "file4">>

\* the three hyperparameter dictionaries of exercise 3
Hyperparameters ==
    << [learning_rate |-> "1e-1", batch_size |-> 100],
       [learning_rate |-> "1e-2", batch_size |-> 100],
       [learning_rate |-> "1e-3", batch_size |-> 100] >>

\* How a cell is run: "serial" is the cell as shipped (plain calls), "remote"
\* the completed exercise, "get_in_loop" exercise 2 with remote functions and a
\* ray.get on the loss inside the loop.
Modes(ex) == IF ex = 2 THEN {"serial", "remote", "get_in_loop"}
                       ELSE {"serial", "remote"}

\* ------------------------------------------------------------ Python values

PyInt(n) == [tag |-> "int", v |-> n]
PyStr(s) == [tag |-> "str", v |-> s]
PyDict(d) == [tag |-> "dict", v |-> d]
NdArray(a) == [tag |-> "array", v |-> a]
ObjectID(t) == [tag |-> "ObjectID", v |-> t]
None == [tag |-> "None", v |-> 0]

IsObjectID(x) == x.tag = "ObjectID"

RECURSIVE SumRange(_, _, _)
\* sum(f[lo..hi]), halving the range
SumRange(f, lo, hi) ==
    IF lo > hi THEN 0
    ELSE IF lo = hi THEN f[lo]
    ELSE LET mid == (lo + hi) \div 2
         IN SumRange(f, lo, mid) + SumRange(f, mid + 1, hi)

\* the builtin sum over a list of numbers
PySum(list) == SumRange([k \in 1..Len(list) |-> list[k].v], 1, Len(list))

\* np.ones((n, d))
NpOnes(n, d) == [r \in 1..n |-> [c \in 1..d |-> 1]]

\* np.mean(a, axis=0): the mean of every column
NpMean0(a) ==
    [c \in 1..Len(a[1]) |->
        SumRange([r \in 1..Len(a) |-> a[r][c]], 1, Len(a)) \div Len(a)]

\* a - m, the row vector m broadcast over the rows of a
NpSubRow(a, m) == [r \in 1..Len(a) |-> [c \in 1..Len(a[r]) |-> a[r][c] - m[c]]]

\* np.hstack([a, a ** 2])
NpHstackSquares(a) ==
    [r \in 1..Len(a) |-> a[r] \o [c \in 1..Len(a[r]) |-> a[r][c] * a[r][c]]]

\* np.dot(a, np.ones(dim)): the sum of every row
NpDotOnes(a) == [r \in 1..Len(a) |-> SumRange(a[r], 1, Len(a[r]))]

\* np.sum((v - np.ones(n)) ** 2)
NpSumSqMinusOne(v) ==
    SumRange([r \in 1..Len(v) |-> (v[r] - 1) * (v[r] - 1)], 1, Len(v))

\* ------------------------------------------------------------ the functions

slow_function(i) == i

load_data(filename) == NdArray(NpOnes(NumData, Dim))

\* mutant: the mean is not subtracted
normalize_data_unshifted(data) == data

normalize_data(data) ==
    CHOOSE out \in {NdArray(NpSubRow(data.v, m)) : m \in {NpMean0(data.v)}} : TRUE

extract_features(normalized_data) == NdArray(NpHstackSquares(normalized_data.v))

compute_loss(features) ==
    CHOOSE out \in {PyInt(NpSumSqMinusOne(d)) : d \in {NpDotOnes(features.v)}} : TRUE

compute_gradient(data, current_model) == PyInt(1)

\* the four stages of the pipeline, in order
Stages == <<"load_data", "normalize_data", "extract_features", "compute_loss">>

\* the time a function sleeps
SleepOf(fn) ==
    CASE fn = "slow_function" -> SlowTime
      [] fn \in {"load_data", "normalize_data", "extract_features",
                 "compute_loss"} -> StageTime
      [] fn = "compute_gradient" -> GradTime
      [] OTHER -> 0

\* the value a function returns for its (resolved) arguments; train_model is a
\* loop of its own and returns the current_model of its frame
Call(fn, args) ==
    CASE fn = "slow_function" -> slow_function(args[1])
      [] fn = "load_data" -> load_data(args[1])
      [] fn = "normalize_data" -> normalize_data(args[1])
      [] fn = "extract_features" -> extract_features(args[1])
      [] fn = "compute_loss" -> compute_loss(args[1])
      [] fn = "compute_gradient" -> compute_gradient(args[1], args[2])

\* ------------------------------------------------------------ state

VARIABLES
    exercise,      \* the exercise being run: 1, 2 or 3
    mode,          \* how its cells are written
    num_cpus,      \* ray.init(num_cpus=...)
    now,           \* time.time(), in ticks
    tasks,         \* the tasks submitted to Ray, by task ID
    last_finished, \* the task that finished most recently (Driver: none)
    pc,            \* the driver's position
    busy,          \* ticks the driver still sleeps inside a plain call
    i,             \* the index of the driver's for loop
    k,             \* exercise 2: the stage of the pass
    results,       \* the list results (exercises 1 and 3)
    losses,        \* the list losses (exercise 2)
    locals,        \* exercise 2: data, normalized_data, features, loss
    frame,         \* exercise 3, serial: the driver's call of train_model
    start_time, inner_start, duration,
    raised,        \* the exception that ended the cell ("" if none)
    hyperparameter_space, \* the grid_search list of every hyperparameter
    grid_cursor,   \* the position in every list of the next configuration
    grid_trials,   \* the configurations of the trials generated so far
    grid_pc,       \* "generate", "done" ("off": no grid search is run)
    trials,        \* the trials of the population-based-training run
    tune_cpus,     \* the CPUs ray.init() found for that run
    tune_args,     \* the arguments of a tune.run call of the Tune notebooks
    machine,       \* the CPUs and GPUs ray.init() found for it
    run_trials,    \* the trials of that call, in the order they were started
    processes,     \* the loop index i of the training process of a trial
    run_pc,        \* "running", "done", "raised" ("off": no such call)
    trainables,    \* the PytorchTrainble objects: model weights and optimizer
    checkpoint,    \* what _save wrote to model.pth (<<>>: nothing yet)
    at_save,       \* history: the trainable as it was when _save was called
    last_call,     \* the method the coordinator called last, and on which
    train_steps    \* the calls of _train so far

rayVars == <<num_cpus, now, tasks, last_finished>>
driverVars == <<pc, busy, i, k, results, losses, locals, frame,
                start_time, inner_start, duration, raised>>
gridVars == <<hyperparameter_space, grid_cursor, grid_trials, grid_pc>>
pbtVars == <<trials, tune_cpus>>
runVars == <<tune_args, machine, run_trials, processes, run_pc>>
trainVars == <<trainables, checkpoint, at_save, last_call, train_steps>>
tuneVars == <<gridVars, pbtVars, runVars, trainVars>>
vars == <<exercise, mode, rayVars, driverVars, tuneVars>>

\* The frame of a call of train_model: the round of its loop, current_model,
\* the gradients (or their object IDs) of the round, and where it is.
NoFrame == [round |-> 0, current_model |-> 0, ids |-> <<>>, phase |-> "none"]

\* current_model = 0, before the first round
NewFrame == [round |-> 0, current_model |-> 0, ids |-> <<>>, phase |-> "submit"]

\* mutant: current_model = total_gradient
NextRoundAssign(f, grads) ==
    [round |-> f.round + 1, current_model |-> PySum(grads),
     ids |-> <<>>, phase |-> "submit"]

\* total_gradient = sum(grads); current_model += total_gradient
NextRound(f, grads) ==
    [round |-> f.round + 1, current_model |-> f.current_model + PySum(grads),
     ids |-> <<>>, phase |-> "submit"]
NoLocals == [data |-> None, normalized_data |-> None, features |-> None,
             loss |-> None]

\* the local variable a stage of the pipeline assigns
LocalOf == <<"data", "normalized_data", "features", "loss">>


\* ------------------------------------------------------------ the Ray runtime

\* The ID of a task is the ID of the task that submitted it (Driver for the
\* driver) followed by the number of the submission in its submitter.
Driver == <<>>

Children(ts, parent) ==
    {id \in DOMAIN ts : /\ Len(id) = Len(parent) + 1
                        /\ SubSeq(id, 1, Len(parent)) = parent}

NextId(ts, parent) == Append(parent, Cardinality(Children(ts, parent)) + 1)

\* mutant: the call of f.remote executes the task
NewTaskStarted(fn, args) ==
    [fn |-> fn, args |-> args, status |-> "running", remaining |-> 0,
     result |-> None, frame |-> NoFrame]

NewTask(fn, args) ==
    [fn |-> fn, args |-> args, status |-> "pending", remaining |-> 0,
     result |-> None, frame |-> NoFrame]

\* f.remote(args) called by `parent`: the task is added to ts (the call
\* returns ObjectID(NextId(ts, parent)) at once)
Submit(ts, parent, fn, args) ==
    (NextId(ts, parent) :> NewTask(fn, args)) @@ ts

\* the tasks whose results task t was passed as object IDs
Deps(t) ==
    {tasks[t].args[n].v : n \in {m \in 1..Len(tasks[t].args) :
                                    IsObjectID(tasks[t].args[m])}}

Finished(t) == tasks[t].status = "finished"

\* mutant: a task is executed without waiting for its arguments
ReadyNoDeps(t) == tasks[t].status = "pending"

\* a task can be executed once the tasks it depends on have finished
Ready(t) ==
    /\ tasks[t].status = "pending"
    /\ \A d \in Deps(t) : Finished(d)

Executing == {t \in DOMAIN tasks : tasks[t].status = "running"}

\* mutant: one task at a time
CpuFreeOne == Executing = {}

\* Ray schedules no more tasks concurrently than there are CPUs
CpuFree == Cardinality(Executing) < num_cpus

\* an object ID passed as an argument is replaced by the object it refers to
Resolve(arg) == IF IsObjectID(arg) THEN tasks[arg.v].result ELSE arg

ResolveAll(args) == [n \in 1..Len(args) |-> Resolve(args[n])]

\* ray.get blocks until the tasks of all the IDs have finished
AllFinished(ids) ==
    \A n \in 1..Len(ids) : IsObjectID(ids[n]) => Finished(ids[n].v)

\* mutant: the objects in the opposite order
ray_get_reversed(ids) ==
    [n \in 1..Len(ids) |-> tasks[ids[Len(ids) + 1 - n].v].result]

\* ray.get(ids): the objects, in the order of the IDs
ray_get(ids) == [n \in 1..Len(ids) |-> tasks[ids[n].v].result]

\* a train_model task is a loop of rounds; it waits in ray.get for the
\* gradients of the round
TrainBlocked(t) ==
    /\ tasks[t].frame.phase = "get"
    /\ ~AllFinished(tasks[t].frame.ids)

TrainReturns(t) ==
    /\ tasks[t].frame.phase = "submit"
    /\ tasks[t].frame.round = NumRounds

\* a worker picks up a task that is ready
Start(t) ==
    /\ Ready(t)
    /\ CpuFree
    /\ tasks' = [tasks EXCEPT
          ![t].status = "running",
          ![t].remaining = SleepOf(tasks[t].fn),
          ![t].frame = IF tasks[t].fn = "train_model" THEN NewFrame
                       ELSE NoFrame]
    /\ UNCHANGED <<tuneVars, exercise, mode, num_cpus, now, last_finished, driverVars>>

\* the function of a task returns: its result is stored under its object ID
Finish(t) ==
    /\ tasks[t].status = "running"
    /\ tasks[t].remaining = 0
    /\ tasks[t].fn = "train_model" => TrainReturns(t)
    /\ \E r \in {IF tasks[t].fn = "train_model"
                 THEN PyInt(tasks[t].frame.current_model)
                 ELSE Call(tasks[t].fn, ResolveAll(tasks[t].args))} :
          tasks' = [tasks EXCEPT ![t].status = "finished", ![t].result = r]
    /\ last_finished' = t
    /\ UNCHANGED <<tuneVars, exercise, mode, num_cpus, now, driverVars>>

\* something a task can do without time passing
TaskCanStep(t) ==
    \/ Ready(t) /\ CpuFree
    \/ /\ tasks[t].status = "running"
       /\ tasks[t].remaining = 0
       /\ tasks[t].fn = "train_model" => ~TrainBlocked(t)

\* the driver waits: for the end of a sleep, for ray.get, or it is through
DriverBlocked ==
    \/ pc \in {"done", "raised"}
    \/ pc = "call" /\ busy > 0
    \/ pc = "get" /\ ~AllFinished(IF exercise = 2 THEN losses ELSE results)
    \/ pc = "get_loss" /\ ~AllFinished(<<locals.loss>>)

Sleeping == {t \in Executing : tasks[t].remaining > 0}

\* 10 ms pass: nothing can happen at the current instant and somebody sleeps
Tick ==
    /\ DriverBlocked
    /\ \A t \in DOMAIN tasks : ~TaskCanStep(t)
    /\ busy > 0 \/ Sleeping # {}
    /\ now' = now + 1
    /\ busy' = IF busy > 0 THEN busy - 1 ELSE 0
    /\ tasks' = [t \in DOMAIN tasks |->
                    IF t \in Sleeping
                    THEN [tasks[t] EXCEPT !.remaining = @ - 1]
                    ELSE tasks[t]]
    /\ UNCHANGED <<tuneVars, exercise, mode, num_cpus, last_finished, pc, i, k, results,
                   losses, locals, frame, start_time, inner_start, duration,
                   raised>>

\* ------------------------------------------------------------ exercise 1

\* results.append(slow_function(i)), as shipped: the driver starts to sleep
Ex1Call ==
    /\ exercise = 1 /\ mode = "serial" /\ pc = "loop"
    /\ pc' = "call"
    /\ busy' = SleepOf("slow_function")
    /\ UNCHANGED <<tuneVars, exercise, mode, rayVars, i, k, results, losses, locals,
                   frame, start_time, inner_start, duration, raised>>

\* slow_function(i) returns i
Ex1Return ==
    /\ exercise = 1 /\ pc = "call" /\ busy = 0
    /\ results' = Append(results, slow_function(PyInt(i)))
    /\ i' = i + 1
    /\ pc' = IF i + 1 = NumCalls THEN "end" ELSE "loop"
    /\ UNCHANGED <<tuneVars, exercise, mode, rayVars, busy, k, losses, locals, frame,
                   start_time, inner_start, duration, raised>>

\* results.append(slow_function.remote(i)), completed
Ex1Remote ==
    /\ exercise = 1 /\ mode = "remote" /\ pc = "loop"
    /\ tasks' = Submit(tasks, Driver, "slow_function", <<PyInt(i)>>)
    /\ results' = Append(results, ObjectID(NextId(tasks, Driver)))
    /\ i' = i + 1
    /\ pc' = IF i + 1 = NumCalls THEN "get" ELSE "loop"
    /\ UNCHANGED <<tuneVars, exercise, mode, num_cpus, now, last_finished, busy, k,
                   losses, locals, frame, start_time, inner_start, duration,
                   raised>>

\* results = ray.get(results); duration = time.time() - start_time
Ex1Get ==
    /\ exercise = 1 /\ pc = "get"
    /\ AllFinished(results)
    /\ results' = ray_get(results)
    /\ duration' = now - start_time
    /\ pc' = "done"
    /\ UNCHANGED <<tuneVars, exercise, mode, rayVars, busy, i, k, losses, locals, frame,
                   start_time, inner_start, raised>>

\* duration = time.time() - start_time, as shipped
Ex1End ==
    /\ exercise = 1 /\ pc = "end"
    /\ duration' = now - start_time
    /\ pc' = "done"
    /\ UNCHANGED <<tuneVars, exercise, mode, rayVars, busy, i, k, results, losses,
                   locals, frame, start_time, inner_start, raised>>

Exercise1 == Ex1Call \/ Ex1Return \/ Ex1Remote \/ Ex1Get \/ Ex1End

\* ------------------------------------------------------------ exercise 2

\* the argument of stage k of the pass over file i
StageArg == IF k = 0 THEN PyStr(Filenames[i + 1]) ELSE locals[LocalOf[k]]

\* mutant: the pass is compared with one second
PassTooSlowSecond(inner_end) == inner_end - inner_start >= SlowTime

\* if inner_end - inner_start >= 0.1
PassTooSlow(inner_end) == inner_end - inner_start >= InnerLimit

\* inner_start = time.time()
Ex2BeginPass ==
    /\ exercise = 2 /\ pc = "loop"
    /\ inner_start' = now
    /\ k' = 0
    /\ pc' = "stage"
    /\ UNCHANGED <<tuneVars, exercise, mode, rayVars, busy, i, results, losses, locals,
                   frame, start_time, duration, raised>>

\* a stage called as a plain function, as shipped: the driver starts to sleep
Ex2Call ==
    /\ exercise = 2 /\ mode = "serial" /\ pc = "stage"
    /\ pc' = "call"
    /\ busy' = SleepOf(Stages[k + 1])
    /\ UNCHANGED <<tuneVars, exercise, mode, rayVars, i, k, results, losses, locals,
                   frame, start_time, inner_start, duration, raised>>

\* the plain call of a stage returns its value
Ex2Return ==
    /\ exercise = 2 /\ pc = "call" /\ busy = 0
    /\ \E r \in {Call(Stages[k + 1], <<StageArg>>)} :
          locals' = [locals EXCEPT ![LocalOf[k + 1]] = r]
    /\ k' = k + 1
    /\ pc' = IF k + 1 = Len(Stages) THEN "pass_end" ELSE "stage"
    /\ UNCHANGED <<tuneVars, exercise, mode, rayVars, busy, i, results, losses, frame,
                   start_time, inner_start, duration, raised>>

\* a stage called with .remote: the object ID goes to the next stage
Ex2Remote ==
    /\ exercise = 2 /\ mode \in {"remote", "get_in_loop"} /\ pc = "stage"
    /\ tasks' = Submit(tasks, Driver, Stages[k + 1], <<StageArg>>)
    /\ locals' = [locals EXCEPT
                    ![LocalOf[k + 1]] = ObjectID(NextId(tasks, Driver))]
    /\ k' = k + 1
    /\ pc' = IF k + 1 < Len(Stages) THEN "stage"
             ELSE IF mode = "get_in_loop" THEN "get_loss" ELSE "pass_end"
    /\ UNCHANGED <<tuneVars, exercise, mode, num_cpus, now, last_finished, busy, i,
                   results, losses, frame, start_time, inner_start, duration,
                   raised>>

\* loss = ray.get(loss) inside of the loop
Ex2GetLoss ==
    /\ exercise = 2 /\ pc = "get_loss"
    /\ AllFinished(<<locals.loss>>)
    /\ locals' = [locals EXCEPT !.loss = ray_get(<<locals.loss>>)[1]]
    /\ pc' = "pass_end"
    /\ UNCHANGED <<tuneVars, exercise, mode, rayVars, busy, i, k, results, losses, frame,
                   start_time, inner_start, duration, raised>>

\* losses.append(loss); inner_end = time.time(); the check of the pass
Ex2PassEnd ==
    /\ exercise = 2 /\ pc = "pass_end"
    /\ losses' = Append(losses, locals.loss)
    /\ IF PassTooSlow(now)
       THEN /\ raised' = "You may be calling ray.get inside of the for loop!"
            /\ pc' = "raised"
            /\ i' = i
       ELSE /\ raised' = raised
            /\ i' = i + 1
            /\ pc' = IF i + 1 = Len(Filenames) THEN "get" ELSE "loop"
    /\ UNCHANGED <<tuneVars, exercise, mode, rayVars, busy, k, results, locals, frame,
                   start_time, inner_start, duration>>

\* loss = sum(losses), completed: loss = sum(ray.get(losses)); duration
Ex2Get ==
    /\ exercise = 2 /\ pc = "get"
    /\ AllFinished(losses)
    /\ locals' = [locals EXCEPT !.loss =
                    PyInt(PySum(IF mode = "remote" THEN ray_get(losses)
                                                   ELSE losses))]
    /\ duration' = now - start_time
    /\ pc' = "done"
    /\ UNCHANGED <<tuneVars, exercise, mode, rayVars, busy, i, k, results, losses, frame,
                   start_time, inner_start, raised>>

Exercise2 ==
    Ex2BeginPass \/ Ex2Call \/ Ex2Return \/ Ex2Remote \/ Ex2GetLoss
        \/ Ex2PassEnd \/ Ex2Get

\* ------------------------------------------------------------ exercise 3

\* train_model(hyperparameters) as shipped: the driver runs the loop itself and
\* sleeps in compute_gradient(j, current_model)
Ex3Call ==
    /\ exercise = 3 /\ mode = "serial" /\ pc \in {"loop", "train"}
    /\ frame' = IF pc = "loop" THEN NewFrame ELSE frame
    /\ pc' = "call"
    /\ busy' = SleepOf("compute_gradient")
    /\ UNCHANGED <<tuneVars, exercise, mode, rayVars, i, k, results, losses, locals,
                   start_time, inner_start, duration, raised>>

\* compute_gradient returns; after the last gradient of a round the round is
\* summed, and after the last round train_model returns current_model
Ex3Return ==
    /\ exercise = 3 /\ pc = "call" /\ busy = 0
    /\ LET grads == Append(frame.ids,
                           compute_gradient(PyInt(Len(frame.ids)),
                                            PyInt(frame.current_model)))
           f == IF Len(grads) = NumGrads THEN NextRound(frame, grads)
                ELSE [frame EXCEPT !.ids = grads]
       IN /\ frame' = f
          /\ IF f.round = NumRounds
             THEN /\ results' = Append(results, PyInt(f.current_model))
                  /\ i' = i + 1
                  /\ pc' = IF i + 1 = Len(Hyperparameters) THEN "end" ELSE "loop"
             ELSE /\ results' = results
                  /\ i' = i
                  /\ pc' = "train"
    /\ UNCHANGED <<tuneVars, exercise, mode, rayVars, busy, k, losses, locals,
                   start_time, inner_start, duration, raised>>

\* results.append(train_model.remote(hyperparameters)), completed
Ex3Remote ==
    /\ exercise = 3 /\ mode = "remote" /\ pc = "loop"
    /\ tasks' = Submit(tasks, Driver, "train_model",
                       <<PyDict(Hyperparameters[i + 1])>>)
    /\ results' = Append(results, ObjectID(NextId(tasks, Driver)))
    /\ i' = i + 1
    /\ pc' = IF i + 1 = Len(Hyperparameters) THEN "get" ELSE "loop"
    /\ UNCHANGED <<tuneVars, exercise, mode, num_cpus, now, last_finished, busy, k,
                   losses, locals, frame, start_time, inner_start, duration,
                   raised>>

\* results = ray.get(results); duration = end_time - start_time
Ex3Get ==
    /\ exercise = 3 /\ pc = "get"
    /\ AllFinished(results)
    /\ results' = ray_get(results)
    /\ duration' = now - start_time
    /\ pc' = "done"
    /\ UNCHANGED <<tuneVars, exercise, mode, rayVars, busy, i, k, losses, locals, frame,
                   start_time, inner_start, raised>>

\* duration = end_time - start_time, as shipped
Ex3End ==
    /\ exercise = 3 /\ pc = "end"
    /\ duration' = now - start_time
    /\ pc' = "done"
    /\ UNCHANGED <<tuneVars, exercise, mode, rayVars, busy, i, k, results, losses,
                   locals, frame, start_time, inner_start, raised>>

RECURSIVE SubmitGradients(_, _, _, _)
\* [compute_gradient.remote(j, current_model) for j in range(n)] called by
\* task t: the tasks with the tasks of the list added
SubmitGradients(ts, t, current_model, n) ==
    IF n = 0 THEN ts
    ELSE Submit(SubmitGradients(ts, t, current_model, n - 1), t,
                "compute_gradient", <<PyInt(n - 1), PyInt(current_model)>>)

\* the object IDs of the n tasks task t submits next
NextIds(ts, t, n) ==
    [j \in 1..n |-> ObjectID(Append(t, Cardinality(Children(ts, t)) + j))]

\* A train_model task runs until it has to wait again: it adds the gradients
\* ray.get returned to current_model (not in the first round) and, unless that
\* was the last round, submits the compute_gradient tasks of the next round
\* and waits for them in ray.get.
TrainStep(t) ==
    /\ tasks[t].status = "running"
    /\ tasks[t].fn = "train_model"
    /\ ~TrainBlocked(t)
    /\ ~TrainReturns(t)
    /\ LET f == IF tasks[t].frame.phase = "get"
                THEN NextRound(tasks[t].frame, ray_get(tasks[t].frame.ids))
                ELSE tasks[t].frame
       IN IF f.round = NumRounds
          THEN tasks' = [tasks EXCEPT ![t].frame = f]
          ELSE tasks' =
                 SubmitGradients(
                   [tasks EXCEPT ![t].frame =
                      [f EXCEPT !.ids = NextIds(tasks, t, NumGrads),
                                !.phase = "get"]],
                   t, f.current_model, NumGrads)
    /\ UNCHANGED <<tuneVars, exercise, mode, num_cpus, now, last_finished, driverVars>>

Exercise3 == Ex3Call \/ Ex3Return \/ Ex3Remote \/ Ex3Get \/ Ex3End

\* ------------------------------------------------------------ grid search

\* the bounds of the grid spaces: the number of hyperparameters, the number
\* of values of a grid_search list, and the number of trials of a space
MaxGridDims == 4
MaxGridValues == 5
MaxGridTrials == 81

RECURSIVE Product(_)
Product(lens) == IF lens = <<>> THEN 1 ELSE Head(lens) * Product(Tail(lens))

\* tune.grid_search([1, 2, ..., n])
grid_search(n) == [v \in 1..n |-> v]

\* the sizes of the lists of a space
GridShape(space) == [d \in 1..Len(space) |-> Len(space[d])]

\* the spaces in which every hyperparameter is a grid_search list
GridSpaces ==
    {[d \in 1..Len(shape) |-> grid_search(shape[d])] :
        shape \in {sh \in UNION {[1..n -> 1..MaxGridValues] : n \in 1..MaxGridDims} :
                      Product(sh) <= MaxGridTrials}}

\* the configuration at a cursor: one value of every list
GridConfig(space, cursor) == [d \in 1..Len(space) |-> space[d][cursor[d]]]

GridLast(space, cursor) == \A d \in 1..Len(space) : cursor[d] = Len(space[d])

\* mutant: the lists are walked side by side
GridAdvanceZip(space, cursor) ==
    [d \in 1..Len(space) |->
        IF cursor[d] < Len(space[d]) THEN cursor[d] + 1 ELSE cursor[d]]

RECURSIVE GridAdvanceFrom(_, _, _)
\* the cursor moved on at position d: past the end of list d it starts the
\* list again and moves on at position d - 1
GridAdvanceFrom(space, cursor, d) ==
    IF d = 0 THEN cursor
    ELSE IF cursor[d] < Len(space[d]) THEN [cursor EXCEPT ![d] = @ + 1]
    ELSE GridAdvanceFrom(space, [cursor EXCEPT ![d] = 1], d - 1)

\* the cursor of the next combination
GridAdvance(space, cursor) == GridAdvanceFrom(space, cursor, Len(space))

\* Tune generates the trial of the next combination of grid values
GridTrial ==
    /\ grid_pc = "generate"
    /\ grid_trials' =
          Append(grid_trials, GridConfig(hyperparameter_space, grid_cursor))
    /\ IF GridLast(hyperparameter_space, grid_cursor)
       THEN /\ grid_pc' = "done"
            /\ grid_cursor' = grid_cursor
       ELSE /\ grid_pc' = "generate"
            /\ grid_cursor' = GridAdvance(hyperparameter_space, grid_cursor)
    /\ UNCHANGED <<hyperparameter_space, pbtVars, runVars, trainVars, exercise, mode,
                   rayVars, driverVars>>

\* no population-based training is run
PbtOff ==
    /\ trials = <<>>
    /\ tune_cpus = 0

\* the arguments of no tune.run call
NoArgs ==
    [name |-> "off", num_samples |-> 0, iterations |-> 0, stop |-> 0,
     max_concurrent |-> 0, gpu |-> 0, track_log |-> FALSE]

\* no tune.run of the Tune notebooks is called
RunOff ==
    /\ tune_args = NoArgs
    /\ machine = [cpus |-> 0, gpus |-> 0]
    /\ run_trials = <<>>
    /\ processes = <<>>
    /\ run_pc = "off"

\* no trainable is constructed
TrainOff ==
    /\ trainables = <<>>
    /\ checkpoint = <<>>
    /\ at_save = <<>>
    /\ last_call = <<>>
    /\ train_steps = 0

\* no exercise cell is run
RayOff ==
    /\ exercise = 0
    /\ mode = "off"
    /\ num_cpus = 0
    /\ now = 0
    /\ tasks = <<>>
    /\ last_finished = Driver
    /\ pc = "done"
    /\ busy = 0
    /\ i = 0
    /\ k = 0
    /\ results = <<>>
    /\ losses = <<>>
    /\ locals = NoLocals
    /\ frame = NoFrame
    /\ start_time = 0
    /\ inner_start = 0
    /\ duration = 0
    /\ raised = ""

\* tune.run(config=hyperparameter_space) about to generate its trials
InitGrid ==
    /\ RayOff
    /\ PbtOff
    /\ RunOff
    /\ TrainOff
    /\ hyperparameter_space \in GridSpaces
    /\ grid_cursor = [d \in 1..Len(hyperparameter_space) |-> 1]
    /\ grid_trials = <<>>
    /\ grid_pc = "generate"

NextGrid == GridTrial

SpecGrid == InitGrid /\ [][NextGrid]_vars

\* ------------------------------------------------------------ specification

\* no grid search is run
GridOff ==
    /\ hyperparameter_space = <<>>
    /\ grid_cursor = <<>>
    /\ grid_trials = <<>>
    /\ grid_pc = "off"

Init ==
    /\ GridOff
    /\ PbtOff
    /\ RunOff
    /\ TrainOff
    /\ exercise \in {1, 2, 3}
    /\ mode \in Modes(exercise)
    /\ num_cpus = InitCpus(exercise)
    /\ now = 0
    /\ tasks = <<>>
    /\ last_finished = Driver
    /\ pc = "loop"
    /\ busy = 0
    /\ i = 0
    /\ k = 0
    /\ results = <<>>
    /\ losses = <<>>
    /\ locals = NoLocals
    /\ frame = NoFrame
    /\ start_time = 0
    /\ inner_start = 0
    /\ duration = 0
    /\ raised = ""

Next ==
    \/ Exercise1
    \/ Exercise2
    \/ Exercise3
    \/ \E t \in DOMAIN tasks : Start(t)
    \/ \E t \in DOMAIN tasks : Finish(t)
    \/ \E t \in DOMAIN tasks : TrainStep(t)
    \/ Tick

Spec == Init /\ [][Next]_vars

\* ------------------------------------------------------------ population-based training

\* tune.run(num_samples=4)
num_samples == 4

\* stop={"training_iteration": 100}
StopIteration == 100

\* PopulationBasedTraining(perturbation_interval=20)
perturbation_interval == 20

\* the bound of the run: the CPUs ray.init() may find
MaxTuneCpus == 2

\* the trial has no checkpoint
NoCheckpoint == 0

\* a trial as tune.run creates it: _setup has not run, no result yet
NewTrial ==
    [status |-> "PENDING", training_iteration |-> 0,
     last_perturbation_time |-> 0, checkpoint |-> NoCheckpoint]

RunningTrials == {t \in DOMAIN trials : trials[t].status = "RUNNING"}

PendingTrials == {t \in DOMAIN trials : trials[t].status = "PENDING"}

\* the training_iteration of the result of the next call of _train
TrainResult(t) == trials[t].training_iteration + 1

\* mutant: the run stops a trial only past the iteration
ShouldStopPast(iteration) == iteration > StopIteration

\* stop={"training_iteration": 100}, looked at on every result
ShouldStop(iteration) == iteration >= StopIteration

\* time_attr="training_iteration", perturbation_interval=20: the scheduler
\* looks at a trial again once the interval has passed
PerturbationDue(t) ==
    TrainResult(t) - trials[t].last_perturbation_time >= perturbation_interval

\* The training iteration of a trial after it restored a checkpoint: _restore
\* loads the model only, and whether the iteration of the checkpoint comes
\* with it is Tune's business: both are possible here.
RestoredIteration(own, saved) == {own, saved}

\* Tune starts the first pending trial on a free CPU: _setup
PbtStart ==
    /\ PendingTrials # {}
    /\ Cardinality(RunningTrials) < tune_cpus
    /\ LET t == CHOOSE p \in PendingTrials : \A q \in PendingTrials : p <= q
       IN trials' = [trials EXCEPT ![t].status = "RUNNING"]
    /\ UNCHANGED <<tune_cpus, gridVars, runVars, trainVars, exercise, mode, rayVars,
                   driverVars>>

\* _train reports a result, and neither the stop condition nor the scheduler
\* has anything to do
PbtTrain(t) ==
    /\ t \in RunningTrials
    /\ ~ShouldStop(TrainResult(t))
    /\ ~PerturbationDue(t)
    /\ trials' = [trials EXCEPT ![t].training_iteration = TrainResult(t)]
    /\ UNCHANGED <<tune_cpus, gridVars, runVars, trainVars, exercise, mode, rayVars,
                   driverVars>>

\* _train reports the result that meets the stop condition
PbtStop(t) ==
    /\ t \in RunningTrials
    /\ ShouldStop(TrainResult(t))
    /\ trials' = [trials EXCEPT ![t].training_iteration = TrainResult(t),
                                ![t].status = "TERMINATED"]
    /\ UNCHANGED <<tune_cpus, gridVars, runVars, trainVars, exercise, mode, rayVars,
                   driverVars>>

\* _train reports a result that puts the trial among the best of the
\* population: _save
PbtSave(t) ==
    /\ t \in RunningTrials
    /\ ~ShouldStop(TrainResult(t))
    /\ PerturbationDue(t)
    /\ trials' = [trials EXCEPT ![t].training_iteration = TrainResult(t),
                                ![t].last_perturbation_time = TrainResult(t),
                                ![t].checkpoint = TrainResult(t)]
    /\ UNCHANGED <<tune_cpus, gridVars, runVars, trainVars, exercise, mode, rayVars,
                   driverVars>>

\* _train reports a result that puts the trial neither among the best nor
\* among the worst, or there is no checkpoint to copy
PbtKeep(t) ==
    /\ t \in RunningTrials
    /\ ~ShouldStop(TrainResult(t))
    /\ PerturbationDue(t)
    /\ trials' = [trials EXCEPT ![t].training_iteration = TrainResult(t),
                                ![t].last_perturbation_time = TrainResult(t),
                                ![t].checkpoint = NoCheckpoint]
    /\ UNCHANGED <<tune_cpus, gridVars, runVars, trainVars, exercise, mode, rayVars,
                   driverVars>>

\* _train reports a result that puts the trial among the worst: it copies
\* the checkpoint of trial d (_restore) and gets mutated hyperparameters
\* (reset_config, as reuse_actors=True)
PbtExploit(t, d) ==
    /\ t \in RunningTrials
    /\ ~ShouldStop(TrainResult(t))
    /\ PerturbationDue(t)
    /\ d \in DOMAIN trials
    /\ d # t
    /\ trials[d].checkpoint # NoCheckpoint
    /\ \E it \in RestoredIteration(TrainResult(t), trials[d].checkpoint) :
          trials' = [trials EXCEPT
              ![t].training_iteration = it,
              ![t].last_perturbation_time = it,
              ![t].checkpoint = NoCheckpoint]
    /\ UNCHANGED <<tune_cpus, gridVars, runVars, trainVars, exercise, mode, rayVars,
                   driverVars>>

\* whatever the next result of trial t leads to
PbtResult(t) ==
    \/ PbtTrain(t)
    \/ PbtStop(t)
    \/ PbtSave(t)
    \/ PbtKeep(t)
    \/ \E d \in DOMAIN trials : PbtExploit(t, d)

\* tune.run(PytorchTrainble, scheduler=scheduler, num_samples=4, ...)
InitPBT ==
    /\ RayOff
    /\ GridOff
    /\ RunOff
    /\ TrainOff
    /\ trials = [t \in 1..num_samples |-> NewTrial]
    /\ tune_cpus \in 1..MaxTuneCpus

NextPBT ==
    \/ PbtStart
    \/ \E t \in DOMAIN trials : PbtTrain(t)
    \/ \E t \in DOMAIN trials : PbtStop(t)
    \/ \E t \in DOMAIN trials : PbtSave(t)
    \/ \E t \in DOMAIN trials : PbtKeep(t)
    \/ \E t, d \in DOMAIN trials : PbtExploit(t, d)

\* Tune starts a pending trial when a CPU is free, and goes on training
\* every running trial.
PbtFairness ==
    /\ WF_vars(PbtStart)
    /\ \A t \in 1..num_samples : WF_vars(PbtResult(t))

SpecPBT == InitPBT /\ [][NextPBT]_vars /\ PbtFairness

\* ------------------------------------------------------------ tune.run

\* the bounds of the machine: its CPU cores and its GPUs, and its CPU cores
\* in the run of the Iris notebook
MaxCores == 3
MaxGpus == 2
MaxIrisCores == 2

\* the bound of the exceptions the trials of a run raise
MaxErrors == 1

\* model.fit(epochs=20) in tune_iris, for i in range(20) in train_mnist
IrisEpochs == 20
MnistIterations == 20

\* num_samples = 1 as shipped, num_samples = 20 as instructed
IrisSamples == {1, 20}

\* assert len(analysis.trials) == 20
IrisExpected == 20

\* tune.run(train_mnist, num_samples=10, ...)
SearchSamples == 10

\* HyperOptSearch(space, max_concurrent=2, ...)
SearchConcurrent == 2

\* stop={"mean_accuracy": 0.98}, and the accuracies test() may return, in
\* hundredths
StopAccuracy == 98
Accuracies == {97, 98, 99}

\* no mean_accuracy reported
NoMetric == 0

\* tune.run(tune_iris, config=hyperparameter_space, num_samples=num_samples)
IrisArgs(n) ==
    [name |-> "tune_iris", num_samples |-> n, iterations |-> IrisEpochs,
     stop |-> 0, max_concurrent |-> 0, gpu |-> 0, track_log |-> FALSE]

\* tune.run(train_mnist, config=search_space, stop={"mean_accuracy": 0.98});
\* log: train_mnist calls tune.track.log(mean_accuracy=acc) (as shipped it
\* does not)
MnistArgs(log) ==
    [name |-> "train_mnist", num_samples |-> 1, iterations |-> MnistIterations,
     stop |-> StopAccuracy, max_concurrent |-> 0, gpu |-> 0, track_log |-> log]

\* tune.run(train_mnist, num_samples=10, search_alg=hyperopt_search)
SearchArgs ==
    [name |-> "search_algorithm", num_samples |-> SearchSamples,
     iterations |-> MnistIterations, stop |-> 0,
     max_concurrent |-> SearchConcurrent, gpu |-> 0, track_log |-> FALSE]

\* tune.run(train_mnist, num_samples=10, resources_per_trial={"GPU": 1})
GpuArgs ==
    [name |-> "use_gpu", num_samples |-> SearchSamples,
     iterations |-> MnistIterations, stop |-> 0, max_concurrent |-> 0,
     gpu |-> 1, track_log |-> FALSE]

\* a trial that starts to train on GPU g (0: on none); results: the results
\* Tune has got from it
NewRunTrial(g) ==
    [status |-> "RUNNING", results |-> 0, mean_accuracy |-> NoMetric,
     gpu |-> g, error_file |-> FALSE]

\* the trials whose training process is alive
Training == {t \in DOMAIN run_trials : run_trials[t].status = "RUNNING"}

\* the python process is killed when the trial is finished
Killed(t) == [u \in DOMAIN processes \ {t} |-> processes[u]]

\* mutant: Tune starts trials without looking at the cores
CoreFreeAlways == TRUE

\* mutant: a core is taken by a trial for good
CoreFreeNever == Len(run_trials) < machine.cpus

\* the training concurrency is at most the number of CPU cores
CoreFree == Cardinality(Training) < machine.cpus

\* mutant: the search algorithm suggests without limit
SuggestionFreeAlways == TRUE

\* the search algorithm limits the configurations evaluated at a time
SuggestionFree ==
    \/ tune_args.max_concurrent = 0
    \/ Cardinality(Training) < tune_args.max_concurrent

\* mutant: every GPU of the machine is offered again
FreeGpusAll == 1..machine.gpus

\* the GPUs no training trial holds
FreeGpus == (1..machine.gpus) \ {run_trials[t].gpu : t \in Training}

\* the GPUs a new trial may get: one of the free ones if it asks for one
GpuChoices == IF tune_args.gpu = 0 THEN {0} ELSE FreeGpus

\* mutant: only a report above the threshold stops the trial
MetricStopAbove(acc) == tune_args.stop # 0 /\ acc > tune_args.stop

\* stop={"mean_accuracy": 0.98} on a reported result
MetricStop(acc) == tune_args.stop # 0 /\ acc >= tune_args.stop

\* mutant: the samples keep coming
SamplesLeftAlways == Len(run_trials) < 2 * IrisExpected

\* samples of the num_samples total have not been started yet
SamplesLeft == Len(run_trials) < tune_args.num_samples

\* a training process starts with a new hyperparameter configuration sample
TuneStart ==
    /\ run_pc = "running"
    /\ SamplesLeft
    /\ CoreFree
    /\ SuggestionFree
    /\ \E g \in GpuChoices : run_trials' = Append(run_trials, NewRunTrial(g))
    /\ processes' = (Len(run_trials) + 1 :> 0) @@ processes
    /\ UNCHANGED <<tune_args, machine, run_pc, gridVars, pbtVars, trainVars, exercise,
                   mode, rayVars, driverVars>>

\* mutant: tune.track.log is added inside "if i % 5 == 0", next to torch.save,
\* so that only every fifth pass of the loop reports
TuneTrainLogWhenSaved(t) ==
    /\ run_pc = "running"
    /\ t \in Training
    /\ processes[t] < tune_args.iterations
    /\ \E acc \in Accuracies :
          IF ~(tune_args.track_log /\ processes[t] % 5 = 0)
          THEN /\ processes' = [processes EXCEPT ![t] = @ + 1]
               /\ UNCHANGED run_trials
          ELSE IF MetricStop(acc)
          THEN /\ processes' = Killed(t)
               /\ run_trials' = [run_trials EXCEPT
                      ![t].results = @ + 1,
                      ![t].mean_accuracy = acc,
                      ![t].status = "TERMINATED",
                      ![t].gpu = 0]
          ELSE /\ processes' = [processes EXCEPT ![t] = @ + 1]
               /\ run_trials' = [run_trials EXCEPT
                      ![t].results = @ + 1,
                      ![t].mean_accuracy = acc]
    /\ UNCHANGED <<tune_args, machine, run_pc, gridVars, pbtVars, trainVars, exercise,
                   mode, rayVars, driverVars>>

\* One pass of the training loop of trial t: train, test, and with
\* tune.track.log the result goes to Tune, which stops the trial if the
\* result meets the stop condition.
TuneTrain(t) ==
    /\ run_pc = "running"
    /\ t \in Training
    /\ processes[t] < tune_args.iterations
    /\ \E acc \in Accuracies :
          IF ~tune_args.track_log
          THEN /\ processes' = [processes EXCEPT ![t] = @ + 1]
               /\ UNCHANGED run_trials
          ELSE IF MetricStop(acc)
          THEN /\ processes' = Killed(t)
               /\ run_trials' = [run_trials EXCEPT
                      ![t].results = @ + 1,
                      ![t].mean_accuracy = acc,
                      ![t].status = "TERMINATED",
                      ![t].gpu = 0]
          ELSE /\ processes' = [processes EXCEPT ![t] = @ + 1]
               /\ run_trials' = [run_trials EXCEPT
                      ![t].results = @ + 1,
                      ![t].mean_accuracy = acc]
    /\ UNCHANGED <<tune_args, machine, run_pc, gridVars, pbtVars, trainVars, exercise,
                   mode, rayVars, driverVars>>

\* the training function of trial t returns: its process is killed
TuneFinish(t) ==
    /\ run_pc = "running"
    /\ t \in Training
    /\ processes[t] = tune_args.iterations
    /\ run_trials' = [run_trials EXCEPT ![t].status = "TERMINATED",
                                        ![t].gpu = 0]
    /\ processes' = Killed(t)
    /\ UNCHANGED <<tune_args, machine, run_pc, gridVars, pbtVars, trainVars, exercise,
                   mode, rayVars, driverVars>>

\* the exceptions raised in the run so far
Errored == {t \in DOMAIN run_trials : run_trials[t].status = "ERROR"}

\* mutant: the exception of a trial ends the run
ErrorOutcomeAbort == "raised"

\* the run goes on after the exception of a trial
ErrorOutcome == "running"

\* the training function of trial t raises an exception: Tune writes the
\* error file of the trial
TuneError(t) ==
    /\ run_pc = "running"
    /\ t \in Training
    /\ Cardinality(Errored) < MaxErrors
    /\ run_trials' = [run_trials EXCEPT ![t].status = "ERROR",
                                        ![t].error_file = TRUE,
                                        ![t].gpu = 0]
    /\ processes' = Killed(t)
    /\ run_pc' = ErrorOutcome
    /\ UNCHANGED <<tune_args, machine, gridVars, pbtVars, trainVars, exercise, mode,
                   rayVars, driverVars>>

\* tune.run returns the analysis when no trial is left, and the cell of
\* tune_iris checks the number of trials
TuneReturn ==
    /\ run_pc = "running"
    /\ ~SamplesLeft
    /\ Training = {}
    /\ run_pc' = IF /\ tune_args.name = "tune_iris"
                    /\ Len(run_trials) # IrisExpected
                 THEN "raised" ELSE "done"
    /\ UNCHANGED <<tune_args, machine, run_trials, processes, gridVars,
                   pbtVars, trainVars, exercise, mode, rayVars, driverVars>>

\* a tune.run call with arguments of args on a machine with some of the
\* given numbers of CPU cores and of GPUs
InitRun(args, cpus, gpus) ==
    /\ RayOff
    /\ GridOff
    /\ PbtOff
    /\ TrainOff
    /\ tune_args \in args
    /\ machine \in [cpus : cpus, gpus : gpus]
    /\ run_trials = <<>>
    /\ processes = <<>>
    /\ run_pc = "running"

NextRun ==
    \/ TuneStart
    \/ \E t \in DOMAIN run_trials : TuneTrain(t)
    \/ \E t \in DOMAIN run_trials : TuneFinish(t)
    \/ TuneReturn

\* The run does not stand still while Tune can start a trial, a training
\* process can go on or tune.run can return.
RunFairness == WF_vars(NextRun)

\* the run of the Iris notebook
InitIris == InitRun({IrisArgs(n) : n \in IrisSamples}, 1..MaxIrisCores, {0})

SpecIris == InitIris /\ [][NextRun]_vars /\ RunFairness

\* the trial run of the MNIST notebook
InitMnist == InitRun({MnistArgs(log) : log \in BOOLEAN}, 1..MaxCores, {0})

SpecMnist == InitMnist /\ [][NextRun]_vars

\* the run with the search algorithm
InitSearch == InitRun({SearchArgs}, 1..MaxCores, {0})

SpecSearch == InitSearch /\ [][NextRun]_vars

\* the run on a machine with GPUs
InitGpu == InitRun({GpuArgs}, 1..MaxCores, 1..MaxGpus)

SpecGpu == InitGpu /\ [][NextRun]_vars

\* the run with the search algorithm, with exceptions in the training function
InitErr == InitRun({SearchArgs}, 1..MaxCores, {0})

NextErr == NextRun \/ \E t \in DOMAIN run_trials : TuneError(t)

SpecErr == InitErr /\ [][NextErr]_vars

\* ------------------------------------------------------------ PytorchTrainble

\* Numbers are fixed-point: a learning rate counts hundredths, a momentum
\* tenths, a weight hundredths of its gradient's unit.  The model ConvNet
\* is one weight; its state_dict() is that weight.

MaxTrainables == 2   \* trainables constructed
MaxTrainSteps == 3   \* calls of _train

DefaultLr == 1         \* config.get("lr", 0.01)
DefaultMomentum == 9   \* config.get("momentum", 0.9)

\* the configurations a trainable is given: no key (validate_save_restore
\* gives none), or a learning rate and a momentum of 0
Configs == {<<>>, [lr |-> 2, momentum |-> 0]}

\* config.get(key, default)
ConfigGet(config, key, default) ==
    IF key \in DOMAIN config THEN config[key] ELSE default

\* ConvNet(): the weights a new model starts from
InitialWeights == {100, 104}

\* the gradient train() computes for a model, a function of its weights
Grad(w) == w \div 4

\* optim.SGD(self.model.parameters(), lr=..., momentum=...): a new optimizer
\* holds no momentum buffer
SGD(config) ==
    [lr |-> ConfigGet(config, "lr", DefaultLr),
     momentum |-> ConfigGet(config, "momentum", DefaultMomentum),
     momentum_buffer |-> <<>>]

\* the momentum buffer after a step of the optimizer o on the gradient g
SGDBuffer(o, g) ==
    IF o.momentum = 0 THEN o.momentum_buffer
    ELSE IF o.momentum_buffer = <<>> THEN <<g>>
    ELSE <<(o.momentum * o.momentum_buffer[1]) \div 10 + g>>

\* train(self.model, self.optimizer, ...): the trainable after one step
AfterTrain(tr) ==
    LET g == Grad(tr.model)
        buffer == SGDBuffer(tr.optimizer, g)
        d_p == IF tr.optimizer.momentum = 0 THEN g ELSE buffer[1]
    IN [tr EXCEPT !.model = tr.model - tr.optimizer.lr * d_p,
                  !.optimizer.momentum_buffer = buffer]

\* torch.save(self.model.state_dict(), checkpoint_path), kept in a file or
\* packed into the object store
Checkpoint(tr, store) == <<[store |-> store, state_dict |-> tr.model]>>

\* self.model.load_state_dict(torch.load(checkpoint_path))
LoadStateDict(tr, state_dict) == [tr EXCEPT !.model = state_dict]

\* PytorchTrainble(config): the constructor calls _setup(config)
PytorchTrainble_setup(config) ==
    /\ Len(trainables) < MaxTrainables
    /\ \E w \in InitialWeights :
          trainables' = Append(trainables,
                               [device |-> "cpu",
                                loaders |-> "get_data_loaders()",
                                model |-> w, optimizer |-> SGD(config)])
    /\ last_call' = <<"_setup", Len(trainables) + 1>>
    /\ UNCHANGED <<checkpoint, at_save, train_steps, gridVars, pbtVars,
                   runVars, exercise, mode, rayVars, driverVars>>

\* _train
PytorchTrainble_train(t) ==
    /\ train_steps < MaxTrainSteps
    /\ trainables' = [trainables EXCEPT ![t] = AfterTrain(@)]
    /\ train_steps' = train_steps + 1
    /\ last_call' = <<"_train", t>>
    /\ UNCHANGED <<checkpoint, at_save, gridVars, pbtVars, runVars,
                   exercise, mode, rayVars, driverVars>>

\* _save
PytorchTrainble_save(t, store) ==
    /\ checkpoint' = Checkpoint(trainables[t], store)
    /\ at_save' = <<trainables[t]>>
    /\ last_call' = <<"_save", t>>
    /\ UNCHANGED <<trainables, train_steps, gridVars, pbtVars, runVars,
                   exercise, mode, rayVars, driverVars>>

\* _restore
PytorchTrainble_restore(t) ==
    /\ checkpoint # <<>>
    /\ trainables' = [trainables EXCEPT
                        ![t] = LoadStateDict(@, checkpoint[1].state_dict)]
    /\ last_call' = <<"_restore", t>>
    /\ UNCHANGED <<checkpoint, at_save, train_steps, gridVars, pbtVars,
                   runVars, exercise, mode, rayVars, driverVars>>

\* mutant: reset_config sets the trainable up again, with a new model
PytorchTrainble_reset_config_setup(t, new_config) ==
    /\ \E w \in InitialWeights :
          trainables' = [trainables EXCEPT ![t].optimizer = SGD(new_config),
                                           ![t].model = w]
    /\ last_call' = <<"reset_config", t, new_config, TRUE>>
    /\ UNCHANGED <<checkpoint, at_save, train_steps, gridVars, pbtVars,
                   runVars, exercise, mode, rayVars, driverVars>>

\* reset_config(new_config): del self.optimizer; self.optimizer = optim.SGD(
\* ...); return True.  last_call keeps the argument and the value returned.
PytorchTrainble_reset_config(t, new_config) ==
    /\ trainables' = [trainables EXCEPT ![t].optimizer = SGD(new_config)]
    /\ last_call' = <<"reset_config", t, new_config, TRUE>>
    /\ UNCHANGED <<checkpoint, at_save, train_steps, gridVars, pbtVars,
                   runVars, exercise, mode, rayVars, driverVars>>

InitTrainable ==
    /\ RayOff
    /\ GridOff
    /\ PbtOff
    /\ RunOff
    /\ TrainOff

NextTrainable ==
    \/ \E config \in Configs : PytorchTrainble_setup(config)
    \/ \E t \in DOMAIN trainables : PytorchTrainble_train(t)
    \/ \E t \in DOMAIN trainables, store \in {"file", "object"} :
          PytorchTrainble_save(t, store)
    \/ \E t \in DOMAIN trainables : PytorchTrainble_restore(t)
    \/ \E t \in DOMAIN trainables, new_config \in Configs :
          PytorchTrainble_reset_config(t, new_config)

SpecTrainable == InitTrainable /\ [][NextTrainable]_vars

\* ------------------------------------------------------------ VERIFY cells

\* hasattr(load_data, 'remote') and the like: the functions of the exercise
\* are remote functions
HasRemote == mode # "serial"

\* mutant: the VERIFY cells compare the results only, not the duration
VerifyResultsOnly(ex) ==
    IF ex = 1 THEN results = [n \in 1..NumCalls |-> PyInt(n - 1)]
    ELSE IF ex = 2 THEN HasRemote /\ locals.loss = PyInt(4000)
    ELSE results = <<PyInt(20), PyInt(20), PyInt(20)>>

\* The asserts of the VERIFY cell of an exercise (for exercise 2 with the
\* hasattr asserts of the cell that defines its functions), on the variables
\* its cell left.  The clock reads the ticks slept plus the time of the calls
\* themselves, which is more than nothing and less than a tick: duration > 1
\* holds from 100 ticks on, duration < 1.1 up to 109 ticks.
Verify(ex) ==
    IF ex = 1
    THEN /\ results = [n \in 1..NumCalls |-> PyInt(n - 1)]
         /\ duration < Ex1TooSlow
         /\ duration >= Ex1TooFast
    ELSE IF ex = 2
    THEN /\ HasRemote
         /\ locals.loss = PyInt(4000)
         /\ duration < Ex2TooSlow
         /\ duration >= Ex2TooFast
    ELSE /\ results = <<PyInt(20), PyInt(20), PyInt(20)>>
         /\ duration < Ex3TooSlow
         /\ duration >= Ex3TooFast

\* ------------------------------------------------------------ the plots

\* the data frame of trial t: the rows of its progress file, one per result,
\* with the columns of a result
Frame(t) ==
    [rows |-> run_trials[t].results,
     columns |-> IF run_trials[t].results = 0 THEN {}
                 ELSE {"mean_accuracy", "timestamp", "training_iteration"}]

\* mutant: a frame for every trial, with or without results
FetchEveryTrial == [t \in DOMAIN run_trials |-> Frame(t)]

\* analysis.fetch_trial_dataframes(): a frame for every trial whose progress
\* file can be read, that is, which has a result
fetch_trial_dataframes ==
    [t \in {u \in DOMAIN run_trials : run_trials[u].results > 0} |-> Frame(t)]

\* mutant: a series shorter than the loop of the trainable cannot be plotted
PlotRaisesOnPartial(d) ==
    \/ "mean_accuracy" \notin d.columns
    \/ d.rows < tune_args.iterations

\* d.mean_accuracy.plot() and d.plot("timestamp", "mean_accuracy", ...) raise
\* for a frame without the column mean_accuracy or without a row
PlotRaises(d) ==
    \/ "mean_accuracy" \notin d.columns
    \/ d.rows = 0

\* dfs = analysis.fetch_trial_dataframes(); for d in dfs.values(): ...plot(...)
TunePlot ==
    /\ run_pc = "done"
    /\ LET dfs == fetch_trial_dataframes
       IN run_pc' = IF \E t \in DOMAIN dfs : PlotRaises(dfs[t])
                    THEN "plot_raised" ELSE "plotted"
    /\ UNCHANGED <<tune_args, machine, run_trials, processes, gridVars,
                   pbtVars, trainVars, exercise, mode, rayVars, driverVars>>

\* train_mnist with and without tune.track.log, for one trial and for two
InitPlot ==
    InitRun({[MnistArgs(log) EXCEPT !.num_samples = n] :
                log \in BOOLEAN, n \in 1..2},
            1..MaxCores, {0})

NextPlot == NextRun \/ TunePlot

SpecPlot == InitPlot /\ [][NextPlot]_vars

\* ------------------------------------------------------------ nested remote functions

\* The example of f, g and h: exercise 4 of the model, with mode the function
\* the driver calls.  The frame of a g or h task holds its list results in ids
\* and the number of its f.remote() calls in round.

\* for _ in range(4) in g and in h
NumNested == 4

\* ray.get(g.remote()), ray.get(h.remote()): the call of .remote
NestedCall ==
    /\ exercise = 4 /\ pc = "loop"
    /\ tasks' = Submit(tasks, Driver, mode, <<>>)
    /\ results' = <<ObjectID(NextId(tasks, Driver))>>
    /\ pc' = "get"
    /\ UNCHANGED <<tuneVars, exercise, mode, num_cpus, now, last_finished,
                   busy, i, k, losses, locals, frame, start_time,
                   inner_start, duration, raised>>

\* a worker picks up a task that is ready; a task waiting in ray.get holds no CPU
NestedStart(t) ==
    /\ Ready(t)
    /\ Cardinality({u \in Executing : tasks[u].frame.phase # "get"}) < num_cpus
    /\ tasks' = [tasks EXCEPT
          ![t].status = "running",
          ![t].frame = IF tasks[t].fn = "f" THEN NoFrame ELSE NewFrame]
    /\ UNCHANGED <<tuneVars, exercise, mode, num_cpus, now, last_finished,
                   driverVars>>

\* results.append(f.remote()) in g and in h; after the loop h calls ray.get
NestedSubmit(t) ==
    /\ tasks[t].status = "running"
    /\ tasks[t].fn \in {"g", "h"}
    /\ tasks[t].frame.phase = "submit"
    /\ tasks[t].frame.round < NumNested
    /\ tasks' = [Submit(tasks, t, "f", <<>>) EXCEPT
          ![t].frame.ids = Append(@, ObjectID(NextId(tasks, t))),
          ![t].frame.round = @ + 1,
          ![t].frame.phase = IF /\ tasks[t].fn = "h"
                                /\ tasks[t].frame.round + 1 = NumNested
                             THEN "get" ELSE "submit"]
    /\ UNCHANGED <<tuneVars, exercise, mode, num_cpus, now, last_finished,
                   driverVars>>

\* mutant: ray.get in h does not wait for the f tasks
NestedFinishNoWait(t) ==
    /\ tasks[t].status = "running"
    /\ tasks[t].fn = "g" => tasks[t].frame.round = NumNested
    /\ tasks[t].fn = "h" => tasks[t].frame.phase = "get"
    /\ tasks' = [tasks EXCEPT
          ![t].status = "finished",
          ![t].result =
              CASE tasks[t].fn = "f" -> PyInt(1)
                [] tasks[t].fn = "g" ->
                      [tag |-> "list", v |-> tasks[t].frame.ids]
                [] tasks[t].fn = "h" ->
                      [tag |-> "list", v |-> ray_get(tasks[t].frame.ids)]]
    /\ last_finished' = t
    /\ UNCHANGED <<tuneVars, exercise, mode, num_cpus, now, driverVars>>

\* a task returns: f returns 1, g its list of object IDs, h the list
\* ray.get(results) once that call has returned
NestedFinish(t) ==
    /\ tasks[t].status = "running"
    /\ tasks[t].fn = "g" => tasks[t].frame.round = NumNested
    /\ tasks[t].fn = "h" => /\ tasks[t].frame.phase = "get"
                            /\ AllFinished(tasks[t].frame.ids)
    /\ tasks' = [tasks EXCEPT
          ![t].status = "finished",
          ![t].result =
              CASE tasks[t].fn = "f" -> PyInt(1)
                [] tasks[t].fn = "g" ->
                      [tag |-> "list", v |-> tasks[t].frame.ids]
                [] tasks[t].fn = "h" ->
                      [tag |-> "list", v |-> ray_get(tasks[t].frame.ids)]]
    /\ last_finished' = t
    /\ UNCHANGED <<tuneVars, exercise, mode, num_cpus, now, driverVars>>

\* ray.get of the driver returns the object of the g or h task
NestedGet ==
    /\ exercise = 4 /\ pc = "get"
    /\ AllFinished(results)
    /\ results' = ray_get(results)[1].v
    /\ pc' = "done"
    /\ UNCHANGED <<tuneVars, exercise, mode, rayVars, busy, i, k, losses,
                   locals, frame, start_time, inner_start, duration, raised>>

InitNested ==
    /\ GridOff
    /\ PbtOff
    /\ RunOff
    /\ TrainOff
    /\ exercise = 4
    /\ mode \in {"g", "h"}
    /\ num_cpus \in 1..InitCpus(exercise)
    /\ now = 0
    /\ tasks = <<>>
    /\ last_finished = Driver
    /\ pc = "loop"
    /\ busy = 0
    /\ i = 0
    /\ k = 0
    /\ results = <<>>
    /\ losses = <<>>
    /\ locals = NoLocals
    /\ frame = NoFrame
    /\ start_time = 0
    /\ inner_start = 0
    /\ duration = 0
    /\ raised = ""

NextNested ==
    \/ NestedCall
    \/ \E t \in DOMAIN tasks : NestedStart(t)
    \/ \E t \in DOMAIN tasks : NestedSubmit(t)
    \/ \E t \in DOMAIN tasks : NestedFinish(t)
    \/ NestedGet

SpecNested == InitNested /\ [][NextNested]_vars

\* ------------------------------------------------------------ the tuning cell

\* HP_KEYS = ["lr", "dense_1", "dense_2"]
HP_KEYS == <<"lr", "dense_1", "dense_2">>

\* mutant: any(key in hyperparameter_space for key in HP_KEYS)
ValidatedAny(space) == \E n \in 1..Len(HP_KEYS) : HP_KEYS[n] \in DOMAIN space

\* all(key in hyperparameter_space for key in HP_KEYS)
Validated(space) == \A n \in 1..Len(HP_KEYS) : HP_KEYS[n] \in DOMAIN space

\* The cell up to tune.run: the assert on hyperparameter_space, then
\* ray.shutdown() and ray.init(), which finds the cores of the machine.
CellBegin ==
    /\ run_pc = "cell"
    /\ IF Validated(hyperparameter_space)
       THEN /\ run_pc' = "running"
            /\ \E cpus \in 1..MaxIrisCores :
                  machine' = [cpus |-> cpus, gpus |-> 0]
       ELSE /\ run_pc' = "raised"
            /\ UNCHANGED machine
    /\ UNCHANGED <<tune_args, run_trials, processes, gridVars, pbtVars,
                   trainVars, exercise, mode, rayVars, driverVars>>

\* hyperparameter_space is a dictionary with a search space for any of the
\* keys of HP_KEYS and of one key more; as shipped it is {}
InitCell ==
    /\ RayOff
    /\ PbtOff
    /\ TrainOff
    /\ hyperparameter_space \in
          UNION {[keys -> {"space"}] :
                    keys \in SUBSET {"lr", "dense_1", "dense_2", "epochs"}}
    /\ grid_cursor = <<>>
    /\ grid_trials = <<>>
    /\ grid_pc = "off"
    /\ tune_args \in {IrisArgs(n) : n \in IrisSamples}
    /\ machine = [cpus |-> 0, gpus |-> 0]
    /\ run_trials = <<>>
    /\ processes = <<>>
    /\ run_pc = "cell"

NextCell == CellBegin \/ NextRun

SpecCell == InitCell /\ [][NextCell]_vars

\* ------------------------------------------------------------ claims

Ex1Completed == exercise = 1 /\ mode = "remote"
Ex2Completed == exercise = 2 /\ mode = "remote"
Ex3Completed == exercise = 3 /\ mode = "remote"

\* the tasks of the pass over file c: the c-th four tasks of the driver
Chain(c) ==
    {t \in DOMAIN tasks : /\ Len(t) = 1
                          /\ (t[1] - 1) \div Len(Stages) = c - 1}

TrainTasks == {t \in DOMAIN tasks : tasks[t].fn = "train_model"}

\* C1: in the completed exercise 1 (4 CPUs, four slow_function.remote(i), one
\* ray.get on the list) the four one-second tasks execute at the same time, and
\* the loop takes the duration of one task, not of four.
C1_FourTasksInOneSecond ==
    Ex1Completed =>
        /\ (0 < now /\ now < SlowTime) => Cardinality(Executing) = NumCalls
        /\ pc = "done" => /\ duration = SlowTime
                          /\ duration < Ex1TooSlow
                          /\ duration < NumCalls * SlowTime

C1_Witness == Ex1Completed /\ pc = "done" /\ duration = SlowTime

\* C5: in the completed exercise 1, ray.get on the list of the four object IDs
\* returns [0, 1, 2, 3]: the i-th result is that of the i-th submitted task, in
\* whatever order the tasks finished.
C5_ResultsInSubmissionOrder ==
    (Ex1Completed /\ pc = "done") =>
        results = <<PyInt(0), PyInt(1), PyInt(2), PyInt(3)>>

\* the task submitted first finished last
C5_Witness ==
    /\ Ex1Completed /\ pc = "done"
    /\ last_finished = <<1>>
    /\ results = <<PyInt(0), PyInt(1), PyInt(2), PyInt(3)>>

\* the pipeline as plain calls, for every filename
PlainLosses ==
    [n \in 1..Len(Filenames) |->
        compute_loss(extract_features(normalize_data(
            load_data(PyStr(Filenames[n])))))]

\* C2: the pipeline load_data -> normalize_data -> extract_features ->
\* compute_loss yields the loss 1000 for every filename, as plain calls and as
\* chained remote tasks, and the sum over the four files is 4000.
C2_LossIs4000 ==
    /\ \A n \in 1..Len(Filenames) : PlainLosses[n] = PyInt(1000)
    /\ PySum(PlainLosses) = 4000
    /\ \A t \in DOMAIN tasks :
          (tasks[t].fn = "compute_loss" /\ Finished(t)) =>
              tasks[t].result = PyInt(1000)
    /\ (exercise = 2 /\ mode = "serial") =>
          \A n \in 1..Len(losses) : losses[n] = PyInt(1000)
    /\ (exercise = 2 /\ pc = "done") => locals.loss = PyInt(4000)

C2_Witness ==
    /\ Ex2Completed /\ pc = "done"
    /\ Len(losses) = Len(Filenames)
    /\ locals.loss = PyInt(4000)

\* C6: train_model returns 20 for every hyperparameters argument, so the three
\* experiments yield results == [20, 20, 20], all integers, in the serial form
\* and with compute_gradient and train_model as remote tasks.
C6_TrainModelReturns20 ==
    /\ \A t \in TrainTasks : Finished(t) => tasks[t].result = PyInt(20)
    /\ (exercise = 3 /\ mode = "serial") =>
          \A n \in 1..Len(results) : results[n] = PyInt(20)
    /\ (exercise = 3 /\ pc = "done") =>
          results = <<PyInt(20), PyInt(20), PyInt(20)>>

C6_Witness ==
    /\ Ex3Completed /\ pc = "done"
    /\ results = <<PyInt(20), PyInt(20), PyInt(20)>>

\* C7: in the completed exercise 2 (4 CPUs) the stages of one chain execute one
\* after another, the four chains execute in parallel, and the computation
\* takes the duration of one chain (four stages: at least 0.4 s and less than
\* 0.8 s), not of sixteen stages.
C7_ChainsInParallel ==
    Ex2Completed =>
        /\ \A c \in 1..Len(Filenames) :
              Cardinality(Executing \cap Chain(c)) <= 1
        /\ (now < Len(Stages) * StageTime /\ now % StageTime # 0) =>
              \A c \in 1..Len(Filenames) :
                  Cardinality(Executing \cap Chain(c)) = 1
        /\ pc = "done" => /\ duration = Len(Stages) * StageTime
                          /\ duration >= Ex2TooFast
                          /\ duration < Ex2TooSlow
                          /\ duration < Len(Filenames) * Len(Stages) * StageTime

C7_Witness == Ex2Completed /\ pc = "done" /\ duration = Len(Stages) * StageTime

\* the compute_gradient tasks a train_model task has submitted and that execute
GradsExecuting(t) == Executing \cap Children(tasks, t)

\* C8: in the completed exercise 3 (9 CPUs) the three train_model tasks execute
\* in parallel, each runs its 10 rounds one after another with the 2
\* compute_gradient tasks of a round in parallel, and the experiments take the
\* duration of 10 gradient computations (at least 0.3 s and less than 0.5 s),
\* not of 60.
C8_NestedParallelism ==
    Ex3Completed =>
        /\ \A t \in TrainTasks :
              GradsExecuting(t) \subseteq
                  {tasks[t].frame.ids[n].v : n \in 1..Len(tasks[t].frame.ids)}
        /\ (now < NumRounds * GradTime /\ now % GradTime # 0) =>
              /\ Cardinality(Executing \cap TrainTasks) = Len(Hyperparameters)
              /\ \A t \in TrainTasks :
                    Cardinality(GradsExecuting(t)) = NumGrads
        /\ pc = "done" =>
              /\ duration = NumRounds * GradTime
              /\ duration >= Ex3TooFast
              /\ duration < Ex3TooSlow
              /\ duration < Len(Hyperparameters) * NumRounds * NumGrads * GradTime

C8_Witness == Ex3Completed /\ pc = "done" /\ duration = NumRounds * GradTime

\* C9: a task that was passed the object ID of another task's result is not
\* executed until the task producing that result has finished executing.
C9_DependenciesFirst ==
    \A t \in DOMAIN tasks :
        tasks[t].status \in {"running", "finished"} =>
            \A d \in Deps(t) : Finished(d)

\* a task that depends on another task is executing
C9_Witness ==
    \E t \in DOMAIN tasks :
        /\ Deps(t) # {}
        /\ tasks[t].status = "running"
        /\ \A d \in Deps(t) : Finished(d)

\* C10: a pass of the exercise 2 loop that only submits the four chained remote
\* calls takes less than 0.1 s and raises nothing; a pass that waits for a stage
\* result inside the loop (plain calls, or ray.get inside the loop) takes at
\* least 0.1 s and raises 'You may be calling ray.get inside of the for loop!',
\* so losses is never completed in that run.
C10_GetInsideLoopRaises ==
    exercise = 2 =>
        IF mode = "remote"
        THEN /\ pc = "pass_end" => now - inner_start < InnerLimit
             /\ pc # "raised"
             /\ raised = ""
        ELSE /\ pc = "pass_end" => now - inner_start >= InnerLimit
             /\ pc \notin {"get", "done"}
             /\ Len(losses) < Len(Filenames)
             /\ pc = "raised" <=>
                  raised = "You may be calling ray.get inside of the for loop!"

C10_Witness ==
    /\ exercise = 2 /\ mode = "get_in_loop"
    /\ pc = "raised"
    /\ raised = "You may be calling ray.get inside of the for loop!"
    /\ Len(losses) = 1

RECURSIVE Combinations(_)
\* the cross-product of the lists of a space
Combinations(space) ==
    IF space = <<>> THEN {<<>>}
    ELSE {Append(c, space[Len(space)][n]) :
             c \in Combinations(SubSeq(space, 1, Len(space) - 1)),
             n \in 1..Len(space[Len(space)])}

\* C3: a space whose dimensions are all grid_search lists produces exactly one
\* trial per element of the cross-product of the lists, each combination
\* exactly once; two dimensions of five values yield 25 configurations and
\* four dimensions of three values 81.
C3_GridIsCrossProduct ==
    grid_pc = "done" =>
        /\ Len(grid_trials) = Product(GridShape(hyperparameter_space))
        /\ \A c \in Combinations(hyperparameter_space) :
              Cardinality({n \in 1..Len(grid_trials) : grid_trials[n] = c}) = 1
        /\ GridShape(hyperparameter_space) = <<5, 5>> => Len(grid_trials) = 25
        /\ GridShape(hyperparameter_space) = <<3, 3, 3, 3>> =>
              Len(grid_trials) = 81

C3_Witness ==
    /\ grid_pc = "done"
    /\ GridShape(hyperparameter_space) = <<5, 5>>
    /\ Len(grid_trials) = 25

\* every trial of the population-based-training run is terminated
AllTerminated == \A t \in DOMAIN trials : trials[t].status = "TERMINATED"

\* a trial is terminated exactly when its training iteration is 100
StoppedAtStopIteration ==
    /\ Len(trials) = 4
    /\ \A t \in DOMAIN trials :
          /\ trials[t].status = "TERMINATED" => trials[t].training_iteration = 100
          /\ trials[t].status # "TERMINATED" => trials[t].training_iteration < 100

DriverGetIds ==
    IF pc = "get_loss" THEN <<locals.loss>>
    ELSE IF exercise = 2 THEN losses ELSE results

\* C11: f.remote() returns an object ID at once, before the task has
\* executed (the new task is pending and has no result, no time has passed
\* and the caller does not sleep); the task is executed in the background (it
\* finishes out of the state running, and then has its result); and ray.get
\* returns only when the tasks of its IDs have finished, with their results.
C11_RemoteIsNonBlocking ==
    [][/\ \A id \in DOMAIN tasks' \ DOMAIN tasks :
             /\ tasks'[id].status = "pending"
             /\ tasks'[id].result = None
             /\ now' = now
             /\ busy' = 0
       /\ \A id \in DOMAIN tasks :
             tasks[id].status # "finished" /\ tasks'[id].status = "finished"
                 => tasks[id].status = "running" /\ tasks'[id].result # None
       /\ pc \in {"get", "get_loss"} /\ pc' # pc =>
             \A n \in 1..Len(DriverGetIds) :
                 /\ tasks[DriverGetIds[n].v].status = "finished"
                 /\ exercise # 2 =>
                       results'[n] = tasks[DriverGetIds[n].v].result]_vars

\* the driver is in ray.get with the object IDs of four tasks, some executing
\* and none finished
C11_Witness ==
    /\ exercise = 1
    /\ pc = "get"
    /\ Len(results) = 4
    /\ \E n \in 1..4 : tasks[results[n].v].status = "running"
    /\ \A n \in 1..4 : tasks[results[n].v].status # "finished"

Over == {t \in DOMAIN run_trials : run_trials[t].status # "RUNNING"}

\* C13: tune.run(tune_iris, config=hyperparameter_space, num_samples=n) never
\* has more than n trials and returns with exactly n; with num_samples=20 the
\* analysis holds 20 trials and the check of the cell passes, with
\* num_samples=1 the check len(analysis.trials) == 20 fails.
C13_TrialCount ==
    /\ Len(run_trials) <= tune_args.num_samples
    /\ run_pc \in {"done", "raised"} =>
          Len(run_trials) = tune_args.num_samples
    /\ run_pc \in {"done", "raised"} /\ tune_args.num_samples = 20 =>
          Len(run_trials) = 20 /\ run_pc = "done"
    /\ run_pc \in {"done", "raised"} /\ tune_args.num_samples = 1 =>
          run_pc = "raised"

\* the run with num_samples=20 has returned
C13_Witness ==
    /\ tune_args.name = "tune_iris"
    /\ tune_args.num_samples = 20
    /\ run_pc = "done"
    /\ Len(run_trials) = 20

\* C14: the number of trials training at the same time never exceeds the
\* number of CPU cores of the machine; on a 2-core machine it is at most 2.
C14_TrainingConcurrency ==
    /\ Cardinality({t \in DOMAIN run_trials :
                       run_trials[t].status = "RUNNING"}) <= machine.cpus
    /\ Cardinality(DOMAIN processes) <= machine.cpus
    /\ machine.cpus = 2 => Cardinality(DOMAIN processes) <= 2

\* two trials train on the 2-core machine while samples wait
C14_Witness ==
    /\ tune_args.name = "tune_iris"
    /\ machine.cpus = 2
    /\ Cardinality(DOMAIN processes) = 2
    /\ Len(run_trials) < tune_args.num_samples

\* a core is free for a sample that has not been started
SlotForSample ==
    /\ run_pc = "running"
    /\ Len(run_trials) < tune_args.num_samples
    /\ Cardinality(DOMAIN processes) < machine.cpus

\* all the samples have been started and their trials are over
AllSamplesOver ==
    /\ Len(run_trials) = tune_args.num_samples
    /\ Over = DOMAIN run_trials

\* C15: whenever a core is free (a trial has finished) while samples have
\* not been started, a new trial can start; and eventually all the
\* num_samples trials have been started and are finished, with fewer cores
\* than samples.
C15_TrialTurnover ==
    /\ [](SlotForSample => ENABLED TuneStart)
    /\ <>AllSamplesOver

\* on fewer cores than samples, a trial started after another had finished
C15_Witness ==
    /\ tune_args.num_samples = 20
    /\ machine.cpus < 20
    /\ Len(run_trials) > machine.cpus
    /\ Over # {}
    /\ run_trials[Len(run_trials)].status = "RUNNING"

\* C16: an exception of the training function of a trial is recorded for that
\* trial (status ERROR, with an error file) and leaves the run and every
\* other trial as they are; the run goes on until the other trials are over.
C16_ErrorIsolation ==
    /\ [][\A t \in DOMAIN run_trials :
             run_trials[t].status # "ERROR" /\ run_trials'[t].status = "ERROR"
                 => /\ run_trials'[t].error_file
                    /\ run_pc' = "running"
                    /\ \A u \in DOMAIN run_trials \ {t} :
                          /\ run_trials'[u] = run_trials[u]
                          /\ u \in DOMAIN processes =>
                                /\ u \in DOMAIN processes'
                                /\ processes'[u] = processes[u]]_vars
    /\ [](/\ \A t \in DOMAIN run_trials :
                run_trials[t].error_file <=> run_trials[t].status = "ERROR"
          /\ run_pc = "running" => ENABLED NextErr
          /\ run_pc # "running" =>
                /\ run_pc = "done"
                /\ Len(run_trials) = tune_args.num_samples
                /\ \A t \in DOMAIN run_trials :
                      run_trials[t].status \in {"TERMINATED", "ERROR"})

\* the run has returned: a trial raised an exception, and trials that trained
\* at that time or started later have terminated
C16_Witness ==
    /\ run_pc = "done"
    /\ Len(run_trials) = 10
    /\ \E t \in DOMAIN run_trials :
          /\ run_trials[t].status = "ERROR"
          /\ run_trials[t].error_file
          /\ t < 10
          /\ \A u \in DOMAIN run_trials \ {t} :
                run_trials[u].status = "TERMINATED"

\* C17: with stop={"mean_accuracy": 0.98} a trial is stopped by the report of
\* a mean_accuracy of at least 0.98: no trial trains on after such a report,
\* a stopped trial is at that report, a terminated trial neither trains nor
\* reports again, and a trial that ends without such a report ends after its
\* 20 iterations.
C17_MetricThresholdStop ==
    /\ [](\A t \in DOMAIN run_trials :
             /\ run_trials[t].status = "RUNNING" =>
                   run_trials[t].mean_accuracy < 98
             /\ run_trials[t].status = "TERMINATED" => t \notin DOMAIN processes
             /\ run_trials[t].results <= 20)
    /\ [][\A t \in DOMAIN run_trials :
             /\ run_trials[t].status = "TERMINATED" =>
                   /\ run_trials'[t] = run_trials[t]
                   /\ t \notin DOMAIN processes'
             /\ /\ run_trials[t].status = "RUNNING"
                /\ run_trials'[t].status = "TERMINATED"
                => IF run_trials'[t].results > run_trials[t].results
                   THEN run_trials'[t].mean_accuracy >= 98
                   ELSE processes[t] = 20
             /\ /\ run_trials[t].status = "RUNNING"
                /\ run_trials'[t].results > run_trials[t].results
                /\ run_trials'[t].mean_accuracy >= 98
                => run_trials'[t].status = "TERMINATED"]_vars

\* the trial was stopped by its report of 0.98, before its 20th iteration
C17_Witness ==
    /\ tune_args.name = "train_mnist"
    /\ \E t \in DOMAIN run_trials :
          /\ run_trials[t].status = "TERMINATED"
          /\ run_trials[t].mean_accuracy = 98
          /\ run_trials[t].results < 20
          /\ run_trials[t].results > 1

\* C18: with HyperOptSearch(space, max_concurrent=2) and num_samples=10, at
\* most 2 trials run at any time, and the run evaluates 10 configurations in
\* total.
C18_SearchConcurrencyCap ==
    /\ Cardinality({t \in DOMAIN run_trials :
                       run_trials[t].status = "RUNNING"}) <= 2
    /\ Cardinality(DOMAIN processes) <= 2
    /\ Len(run_trials) <= 10
    /\ run_pc # "running" =>
          /\ run_pc = "done"
          /\ Len(run_trials) = 10
          /\ \A t \in DOMAIN run_trials : run_trials[t].status = "TERMINATED"

\* on 3 cores two trials run and the next configuration waits
C18_Witness ==
    /\ tune_args.name = "search_algorithm"
    /\ machine.cpus = 3
    /\ Cardinality(DOMAIN processes) = 2
    /\ Len(run_trials) >= 2
    /\ Len(run_trials) < 10

\* C19: with one GPU per trial, the number of running trials never exceeds
\* the number of GPUs, every running trial has a GPU of the machine, and no
\* GPU is assigned to two running trials.
C19_GpuIsolation ==
    LET running == {t \in DOMAIN run_trials : run_trials[t].status = "RUNNING"}
    IN /\ Cardinality(running) <= machine.gpus
       /\ \A t \in running : run_trials[t].gpu \in 1..machine.gpus
       /\ \A t, u \in running : t # u => run_trials[t].gpu # run_trials[u].gpu

\* on 3 cores and 2 GPUs two trials run, each on its GPU, and the next waits
C19_Witness ==
    /\ tune_args.name = "use_gpu"
    /\ machine.cpus = 3
    /\ machine.gpus = 2
    /\ Cardinality(DOMAIN processes) = 2
    /\ Len(run_trials) < 10
    /\ \E t, u \in DOMAIN processes :
          run_trials[t].gpu = 1 /\ run_trials[u].gpu = 2

\* the coordinator has just restored a trainable from the checkpoint
Restored == last_call # <<>> /\ last_call[1] = "_restore"

\* the trainable just restored
RestoredTrainable == trainables[last_call[2]]

\* the two trainables were configured alike
SameConfig(a, b) ==
    /\ a.optimizer.lr = b.optimizer.lr
    /\ a.optimizer.momentum = b.optimizer.momentum

\* the weights do make the round trip: a trainable just restored has the
\* weights the saved trainable had when it was saved
RestoredWeights == Restored => RestoredTrainable.model = at_save[1].model

\* C20: a PytorchTrainble restored with _restore from what _save wrote
\* continues training exactly as the saved one would have: configured as the
\* saved one was, its next _train leaves it with the weights the next _train
\* of the saved one would have left, whether the checkpoint went through a
\* file or through the object store.
C20_CheckpointRoundTrip ==
    (Restored /\ SameConfig(RestoredTrainable, at_save[1]))
        => AfterTrain(RestoredTrainable).model = AfterTrain(at_save[1]).model

\* a new trainable with the default configuration is restored from the
\* checkpoint of one with the default configuration that had trained
C20_Witness ==
    /\ Restored
    /\ checkpoint[1].store = "object"
    /\ RestoredTrainable.optimizer = SGD(<<>>)
    /\ SameConfig(RestoredTrainable, at_save[1])
    /\ at_save[1].optimizer.momentum_buffer # <<>>
    /\ RestoredTrainable.model = at_save[1].model

\* C21: for each of the exercises 1, 2 and 3, when its cell has run as shipped
\* (plain calls) at least one check of its VERIFY cell fails, and when it has
\* run completed with remote functions all of the checks pass.
C21_SelfChecks ==
    (exercise \in 1..3 /\ pc \in {"done", "raised"}) =>
        /\ mode = "serial" => ~Verify(exercise)
        /\ mode = "remote" => Verify(exercise)

\* exercise 1 has run as shipped: the results are right and the loop took the
\* time of four calls, which the VERIFY cell finds too slow
C21_Witness ==
    /\ exercise = 1 /\ mode = "serial" /\ pc = "done"
    /\ results = [n \in 1..NumCalls |-> PyInt(n - 1)]
    /\ duration = NumCalls * SlowTime
    /\ ~Verify(1)

C22_WitnessEmpty ==
    /\ run_pc = "plotted"
    /\ ~tune_args.track_log
    /\ Len(run_trials) = 2
    /\ DOMAIN fetch_trial_dataframes = {}

\* train_mnist as completed: with tune.track.log(mean_accuracy=acc) in its loop
MnistCompleted == tune_args.name = "train_mnist" /\ tune_args.track_log

\* C23: train_mnist with tune.track.log added is called once for a trial and
\* reports once in every pass of its loop: while it runs, Tune has as many
\* results of the trial as the loop has made passes; a step adds at most one
\* result, for the pass the loop is in and with an accuracy of that pass; and a
\* trial whose function returned, not stopped by the stop condition, has
\* reported exactly 20 results.
C23_ReportsEveryIteration ==
    /\ [](MnistCompleted =>
            \A t \in DOMAIN run_trials :
                /\ t \in Training => run_trials[t].results = processes[t]
                /\ run_trials[t].results <= MnistIterations
                /\ (/\ run_trials[t].status = "TERMINATED"
                    /\ ~MetricStop(run_trials[t].mean_accuracy))
                      => run_trials[t].results = MnistIterations)
    /\ [][MnistCompleted =>
            \A t \in DOMAIN run_trials :
                /\ run_trials'[t].results \in
                      {run_trials[t].results, run_trials[t].results + 1}
                /\ run_trials'[t].results = run_trials[t].results + 1 =>
                      /\ t \in Training
                      /\ processes[t] = run_trials[t].results
                      /\ run_trials'[t].mean_accuracy \in Accuracies
                /\ t \notin DOMAIN processes => t \notin DOMAIN processes']_vars

\* a trial has run its 20 passes without meeting the stop condition and has
\* reported 20 results
C23_Witness ==
    /\ MnistCompleted
    /\ run_pc = "done"
    /\ run_trials[1].status = "TERMINATED"
    /\ run_trials[1].results = MnistIterations
    /\ ~MetricStop(run_trials[1].mean_accuracy)

\* the task the driver submitted in the example of nested remote functions
Outer == <<1>>

\* the f tasks of the example that have not finished
UnfinishedInner == {t \in Children(tasks, Outer) : ~Finished(t)}

\* C24: ray.get(h.remote()) returns [1, 1, 1, 1], and the task h has not
\* finished as long as one of the four f tasks it submits has not; ray.get(
\* g.remote()) returns the object IDs of the four f tasks g submitted, whether
\* these have finished or not.
C24_NestedRemoteFunctions ==
    exercise = 4 =>
        /\ (mode = "h" /\ Outer \in DOMAIN tasks /\ Finished(Outer)) =>
              /\ Cardinality(Children(tasks, Outer)) = NumNested
              /\ UnfinishedInner = {}
        /\ (mode = "h" /\ pc = "done") =>
              results = [n \in 1..NumNested |-> PyInt(1)]
        /\ (mode = "g" /\ pc = "done") =>
              results = [n \in 1..NumNested |-> ObjectID(Append(Outer, n))]

\* ray.get(g.remote()) has returned the four object IDs and none of the f
\* tasks has started
C24_Witness ==
    /\ exercise = 4 /\ mode = "g" /\ pc = "done"
    /\ Len(results) = NumNested
    /\ \A t \in Children(tasks, Outer) : tasks[t].status = "pending"
    /\ Cardinality(UnfinishedInner) = NumNested

\* ray.get(h.remote()) has returned the four values
C24_WitnessH ==
    /\ exercise = 4 /\ mode = "h" /\ pc = "done"
    /\ results = [n \in 1..NumNested |-> PyInt(1)]

\* C25: a call reset_config(new_config) of a trainable leaves it with a new SGD
\* optimizer (no momentum buffer) whose lr and momentum are those of
\* new_config, 0.01 and 0.9 for a missing key; its model weights, device and
\* data loaders, every other trainable and the checkpoint are unchanged; and
\* the call returns True.
C25_ResetConfig ==
    [][last_call'[1] = "reset_config" =>
          LET t == last_call'[2]
              new_config == last_call'[3]
          IN /\ trainables'[t].optimizer =
                    [lr |-> IF "lr" \in DOMAIN new_config
                            THEN new_config.lr ELSE DefaultLr,
                     momentum |-> IF "momentum" \in DOMAIN new_config
                                  THEN new_config.momentum
                                  ELSE DefaultMomentum,
                     momentum_buffer |-> <<>>]
             /\ trainables'[t].model = trainables[t].model
             /\ trainables'[t].device = trainables[t].device
             /\ trainables'[t].loaders = trainables[t].loaders
             /\ \A u \in DOMAIN trainables \ {t} :
                    trainables'[u] = trainables[u]
             /\ checkpoint' = checkpoint
             /\ last_call'[4] = TRUE]_vars

\* a trainable that has trained was reconfigured with an empty new_config: it
\* has its trained weights and a new optimizer with the defaults
C25_Witness ==
    /\ last_call # <<>>
    /\ last_call[1] = "reset_config"
    /\ last_call[3] = <<>>
    /\ train_steps > 0
    /\ trainables[last_call[2]].model \notin InitialWeights
    /\ trainables[last_call[2]].optimizer = SGD(<<>>)

\* ray.init has run, or a trial was started, in the tuning cell
CellPastAssert ==
    \/ run_pc \in {"running", "done"}
    \/ machine.cpus > 0
    \/ run_trials # <<>>

\* C26: the tuning cell gets past its assert, to ray.init and tune.run, only
\* with a hyperparameter_space that has all of the keys lr, dense_1 and
\* dense_2; with a key missing the cell ends at the assert, Ray is not
\* started and no trial is.
C26_SpaceValidation ==
    /\ CellPastAssert =>
          {"lr", "dense_1", "dense_2"} \subseteq DOMAIN hyperparameter_space
    /\ ~({"lr", "dense_1", "dense_2"} \subseteq DOMAIN hyperparameter_space) =>
          /\ run_pc \in {"cell", "raised"}
          /\ machine.cpus = 0
          /\ run_trials = <<>>
          /\ ~ENABLED NextRun

\* the cell as shipped, with the empty space, has ended at the assert
C26_Witness ==
    /\ hyperparameter_space = <<>>
    /\ run_pc = "raised"
    /\ machine.cpus = 0
    /\ run_trials = <<>>

\* with a full space and 20 samples the cell has run to its end
C26_WitnessRun ==
    /\ DOMAIN hyperparameter_space = {"lr", "dense_1", "dense_2"}
    /\ run_pc = "done"
    /\ Len(run_trials) = IrisExpected

====
